---------------------------- MODULE Spec2Model ----------------------------
(***************************************************************************)
(* A model of egx30_stock_pipeline.py: the extraction task, the validation *)
(* and script-generation task, the Hive load script they generate, and the *)
(* Airflow ordering and retry of the three tasks.                          *)
(*                                                                         *)
(* Text is a sequence of one-character strings, so that str.replace,       *)
(* str.split, str.strip, str() and float() are computed character by       *)
(* character.  A Python number is a record [t, m]: t is "int" or "float"   *)
(* and m is the value in thousandths.                                      *)
(***************************************************************************)
EXTENDS Integers, Sequences, FiniteSets, Bags, TLC

-----------------------------------------------------------------------------
(* Python text primitives                                                  *)

Digits == <<"0","1","2","3","4","5","6","7","8","9">>

IsDigit(c) == \E i \in 1..Len(Digits) : Digits[i] = c

DigitVal(c) == (CHOOSE i \in 1..Len(Digits) : Digits[i] = c) - 1

\* the characters str.strip() removes
Whitespace == {" ", "\t", "\n", "\r"}

RECURSIVE LStrip(_)
LStrip(s) == IF s # <<>> /\ Head(s) \in Whitespace THEN LStrip(Tail(s)) ELSE s

RECURSIVE RStrip(_)
RStrip(s) ==
  IF s # <<>> /\ s[Len(s)] \in Whitespace
  THEN RStrip(SubSeq(s, 1, Len(s) - 1))
  ELSE s

\* str.strip()
Strip(s) == RStrip(LStrip(s))

RECURSIVE SplitAcc(_, _, _)
SplitAcc(s, sep, cur) ==
  IF s = <<>> THEN <<cur>>
  ELSE IF Head(s) = sep THEN <<cur>> \o SplitAcc(Tail(s), sep, <<>>)
  ELSE SplitAcc(Tail(s), sep, Append(cur, Head(s)))

\* str.split(sep) for a one-character separator
Split(s, sep) == SplitAcc(s, sep, <<>>)

StartsWith(s, p) == Len(s) >= Len(p) /\ SubSeq(s, 1, Len(p)) = p

\* str.replace(old, new): every non-overlapping occurrence, left to right
RECURSIVE Replace(_, _, _)
Replace(s, old, new) ==
  IF s = <<>> THEN <<>>
  ELSE IF StartsWith(s, old)
       THEN new \o Replace(SubSeq(s, Len(old) + 1, Len(s)), old, new)
       ELSE <<Head(s)>> \o Replace(Tail(s), old, new)

RECURSIVE NatStr(_)
NatStr(n) ==
  IF n < 10 THEN <<Digits[n + 1]>>
  ELSE NatStr(n \div 10) \o <<Digits[(n % 10) + 1]>>

\* the fractional digits of repr(float): trailing zeros dropped, one kept
FracStr(f) ==
  LET d3 == <<Digits[(f \div 100) + 1], Digits[((f \div 10) % 10) + 1],
              Digits[(f % 10) + 1]>>
  IN  IF f % 10 # 0 THEN d3
      ELSE IF f % 100 # 0 THEN SubSeq(d3, 1, 2)
      ELSE SubSeq(d3, 1, 1)

Abs(n) == IF n < 0 THEN -n ELSE n

\* PyStr with a thousands separator, as the format spec "," would give
PyStrGrouped(x) ==
  LET a == Abs(x.m) \div 1000
      f == IF x.t = "int" THEN <<>> ELSE <<".">> \o FracStr(Abs(x.m) % 1000)
  IN  IF a < 1000 THEN NatStr(a) \o f
      ELSE NatStr(a \div 1000) \o <<",">>
             \o <<Digits[((a \div 100) % 10) + 1], Digits[((a \div 10) % 10) + 1],
                  Digits[(a % 10) + 1]>> \o f

\* what an f-string puts for a number: str(int) has no point, str(float)
\* always has one ("10.0", "123.46").  Magnitudes stay below 1e16, where
\* repr uses no exponent.
PyStr(x) ==
  LET a    == Abs(x.m)
      sign == IF x.m < 0 THEN <<"-">> ELSE <<>>
  IN  IF x.t = "int" THEN sign \o NatStr(a \div 1000)
      ELSE sign \o NatStr(a \div 1000) \o <<".">> \o FracStr(a % 1000)

AllDigits(s) == \A i \in 1..Len(s) : IsDigit(s[i])

RECURSIVE NatVal(_)
NatVal(s) ==
  IF s = <<>> THEN 0
  ELSE NatVal(SubSeq(s, 1, Len(s) - 1)) * 10 + DigitVal(s[Len(s)])

ValueError == [t |-> "ValueError"]

\* a text float() accepts whose value has more than three fractional digits
Unrepresented == [t |-> "unrepresented"]

Pad3(fp) == SubSeq(fp \o <<"0","0","0">>, 1, 3)

\* float(s) on decimal text: surrounding whitespace is ignored, then an
\* optional sign, digits, an optional point and digits, one digit at least.
\* Exponents, underscores, "inf" and "nan" are not in the texts modelled.
PyFloat(s) ==
  LET u      == Strip(s)
      signed == u # <<>> /\ Head(u) \in {"-", "+"}
      neg    == u # <<>> /\ Head(u) = "-"
      body   == IF signed THEN Tail(u) ELSE u
      parts  == Split(body, ".")
      ip     == parts[1]
      fp     == IF Len(parts) >= 2 THEN parts[2] ELSE <<>>
      ok     == /\ Len(parts) <= 2
                /\ AllDigits(ip)
                /\ AllDigits(fp)
                /\ Len(ip) + Len(fp) > 0
      mag    == NatVal(ip) * 1000 + NatVal(Pad3(fp))
  IN  IF ~ok THEN ValueError
      ELSE IF Len(fp) > 3 THEN Unrepresented
      ELSE [t |-> "float", m |-> IF neg THEN -mag ELSE mag]

\* round(x, 2): an int is returned unchanged; a float goes to the nearest
\* hundredth, ties to even.  A tie is only ever a value exactly representable
\* in binary (a multiple of 0.125); the closes modelled have no other tie.
PyRound2(x) ==
  IF x.t = "int" THEN x
  ELSE LET q == x.m \div 10
           r == x.m % 10
           h == IF r < 5 THEN q
                ELSE IF r > 5 THEN q + 1
                ELSE IF q % 2 = 0 THEN q ELSE q + 1
       IN  [t |-> "float", m |-> h * 10]

-----------------------------------------------------------------------------
(* Configuration                                                           *)

\* retries of default_args: a task runs at most 1 + Retries times
Retries == 2

egx_symbols == <<
  <<"E","G","S","0","1","0","4","1","C","0","1","0",".","C","A">>,
  <<"E","G","S","0","1","0","7","1","C","0","1","7",".","C","A">>,
  <<"E","G","S","0","1","0","8","1","C","0","1","6",".","C","A">>,
  <<"E","G","S","0","2","0","2","1","C","0","1","1",".","C","A">>,
  <<"E","G","S","0","2","0","5","1","C","0","1","8",".","C","A">>,
  <<"E","G","S","0","2","0","9","1","C","0","1","4",".","C","A">>,
  <<"E","G","S","0","2","2","1","1","C","0","1","8",".","C","A">>,
  <<"E","G","S","0","2","2","9","1","C","0","1","0",".","C","A">>,
  <<"E","G","S","0","7","0","6","1","C","0","1","2",".","C","A">> >>

\* how many of the configured symbols, from the first, a run queries
NumSymbols == 3

\* how many lines after the header an arbitrary extraction artifact has
MaxRows == 3

\* how many times the same load script is executed in succession
MaxExecutions == 2

\* how many lines after the header the artifact of a load-only run has
MaxLoadRows == 2

Universe == SubSeq(egx_symbols, 1, IF NumSymbols < Len(egx_symbols)
                                   THEN NumSymbols ELSE Len(egx_symbols))

DotCA == <<".","C","A">>

\* context['ds'] of the two run dates modelled
Date1 == <<"2","0","2","4","-","0","1","-","0","1">>
Date2 == <<"2","0","2","4","-","0","1","-","0","2">>
Dates == {Date1, Date2}

CsvPath(ds) ==
  <<"/","t","m","p","/","e","g","x","3","0","_">> \o ds \o <<".","c","s","v">>

HiveDataPath(ds) ==
  <<"/","t","m","p","/","h","i","v","e","_","d","a","t","a","_">> \o ds
    \o <<".","t","x","t">>

HqlPath(ds) ==
  <<"/","t","m","p","/","l","o","a","d","_","h","i","v","e","_">> \o ds
    \o <<".","h","q","l">>

CsvHeader ==
  <<"d","a","t","e",",","s","t","o","c","k","_","s","y","m","b","o","l",",",
    "p","r","i","c","e">>

Tasks == {"extract_data", "validate_and_prepare", "load_to_hive"}

\* the three tasks with no dependency declared between them
UpstreamNone(t) == {}

\* extract >> validate >> load
Upstream(t) ==
  CASE t = "extract_data"         -> {}
    [] t = "validate_and_prepare" -> {"extract_data"}
    [] t = "load_to_hive"         -> {"validate_and_prepare"}

NoXCom == <<>>

-----------------------------------------------------------------------------
(* What the price source answers                                           *)

NoneVal == [t |-> "None"]
StrVal  == [t |-> "str"]

\* closes the source reports: 123.456 and the JSON integer 1500
SampleCloses ==
  { [t |-> "float", m |-> 123456], [t |-> "int", m |-> 1500000] }

CloseLists ==
  {<<>>, <<NoneVal>>, <<StrVal>>}
    \cup {<<v>> : v \in SampleCloses}
    \cup {<<NoneVal, v>> : v \in SampleCloses}

\* the JSON document, reduced to the keys the code reads: result is
\* data['chart']['result'] ([] when either key is missing), has_quote says
\* whether indicators.quote is present, has_close whether quote[0].close is
Payloads ==
  { [result |-> <<>>] }
    \cup { [result |-> <<[has_quote |-> FALSE, quote |-> <<>>]>>] }
    \cup { [result |-> <<[has_quote |-> TRUE, quote |-> <<>>]>>] }
    \cup { [result |-> <<[has_quote |-> TRUE,
                          quote |-> <<[has_close |-> FALSE, close |-> <<>>]>>]>>] }
    \cup { [result |-> <<[has_quote |-> TRUE,
                          quote |-> <<[has_close |-> TRUE, close |-> c]>>]>>]
           : c \in CloseLists }

\* raises says what urlopen / read / json.loads raised, "none" if nothing
Responses ==
  { [raises |-> e, data |-> [result |-> <<>>]]
      : e \in {"URLError", "JSONDecodeError"} }
    \cup { [raises |-> "none", data |-> d] : d \in Payloads }

-----------------------------------------------------------------------------
(* State                                                                   *)

VARIABLES
  fs,       \* the files under /tmp: path -> content, for the paths that exist
  task,     \* run -> task id -> Airflow task-instance state
  tries,    \* run -> task id -> attempts started
  xcom,     \* run -> task id -> return value pushed, NoXCom if none
  error,    \* run -> task id -> the exception of the last failed attempt
  ex,       \* run -> locals of extract_stock_data while it runs
  hpc,      \* run -> the statement `hive -f` is about to execute
  tables,   \* the Hive tables that exist
  staging,  \* rows of egx30_staging, a bag
  stocks,   \* trade_date -> rows of that partition of egx30_stocks, a bag
  counted   \* run -> what the verification query of the last execution gave

vars == <<fs, task, tries, xcom, error, ex, hpc, tables, staging, stocks, counted>>

hive == <<tables, staging, stocks, counted>>

Runs == DOMAIN task

StagingTable == "egx30_staging"
StocksTable  == "egx30_stocks"

WriteFile(files, path, content) ==
  [q \in (DOMAIN files) \cup {path} |-> IF q = path THEN content ELSE files[q]]

ExInit == [idx |-> 1, all_data |-> <<>>, seen |-> <<>>, logged |-> 0]

-----------------------------------------------------------------------------
(* Airflow: lines 9-16 and 162-182                                         *)

\* a task instance is queued when it has not run or waits for a retry, and
\* every upstream task succeeded (trigger rule all_success)
CanRun(r, t) ==
  /\ r \in Runs
  /\ task[r][t] \in {"none", "up_for_retry"}
  /\ \A u \in Upstream(t) : task[r][u] = "success"

StartTask(r, t) ==
  /\ CanRun(r, t)
  /\ task' = [task EXCEPT ![r][t] = "running"]
  /\ tries' = [tries EXCEPT ![r][t] = @ + 1]
  /\ ex' = IF t = "extract_data" THEN [ex EXCEPT ![r] = ExInit] ELSE ex
  /\ hpc' = IF t = "load_to_hive" THEN [hpc EXCEPT ![r] = 1] ELSE hpc
  /\ UNCHANGED <<fs, xcom, error, hive>>

\* the callable raised, or the command exited non-zero
FailedState(r, t) == IF tries[r][t] <= Retries THEN "up_for_retry" ELSE "failed"

TaskFails(r, t, e) ==
  /\ task' = [task EXCEPT ![r][t] = FailedState(r, t)]
  /\ error' = [error EXCEPT ![r][t] = e]
  /\ UNCHANGED <<tries, xcom>>

\* the callable returned: its value is pushed to XCom
TaskSucceeds(r, t, value) ==
  /\ task' = [task EXCEPT ![r][t] = "success"]
  /\ xcom' = [xcom EXCEPT ![r][t] = value]
  /\ UNCHANGED <<tries, error>>

\* a task downstream of a failed task never runs
MarkUpstreamFailed(r, t) ==
  /\ r \in Runs
  /\ task[r][t] = "none"
  /\ \E u \in Upstream(t) : task[r][u] \in {"failed", "upstream_failed"}
  /\ task' = [task EXCEPT ![r][t] = "upstream_failed"]
  /\ UNCHANGED <<fs, tries, xcom, error, ex, hpc, hive>>

-----------------------------------------------------------------------------
(* extract_stock_data: lines 26-78                                         *)

\* TryFetch with an except clause too narrow for what urlopen and json.loads
\* raise: their exception leaves the loop
TryFetchUncaught(symbol, resp, ds) ==
  LET skip    == [rows |-> <<>>, logged |-> 0, escapes |-> "none"]
      caught  == [rows |-> <<>>, logged |-> 1, escapes |-> "none"]
      result  == resp.data.result
      quotes  == IF result[1].has_quote THEN result[1].quote
                 ELSE <<[has_close |-> FALSE, close |-> <<>>]>>
      closes  == IF quotes[1].has_close THEN quotes[1].close ELSE <<>>
  IN  IF resp.raises # "none"
      THEN [rows |-> <<>>, logged |-> 0, escapes |-> resp.raises]
      ELSE IF result = <<>> THEN skip
      ELSE IF quotes = <<>> THEN caught
      ELSE IF closes = <<>> \/ closes[1] = NoneVal THEN skip
      ELSE IF closes[1].t \notin {"int", "float"} THEN caught
      ELSE [rows |-> << [date   |-> ds,
                         symbol |-> Replace(symbol, DotCA, <<>>),
                         price  |-> PyRound2(closes[1])] >>,
            logged |-> 0, escapes |-> "none"]

\* one pass of the loop body for `symbol`: rows is what all_data.append got,
\* logged is 1 when the except clause ran, escapes is the exception that
\* leaves the loop ("none": `except Exception` catches every one of them)
TryFetch(symbol, resp, ds) ==
  LET skip    == [rows |-> <<>>, logged |-> 0, escapes |-> "none"]
      caught  == [rows |-> <<>>, logged |-> 1, escapes |-> "none"]
      result  == resp.data.result
      quotes  == IF result[1].has_quote THEN result[1].quote
                 ELSE <<[has_close |-> FALSE, close |-> <<>>]>>
      closes  == IF quotes[1].has_close THEN quotes[1].close ELSE <<>>
  IN  IF resp.raises # "none" THEN caught
      ELSE IF result = <<>> THEN skip
      ELSE IF quotes = <<>> THEN caught                 \* [][0]: IndexError
      ELSE IF closes = <<>> \/ closes[1] = NoneVal THEN skip
      ELSE IF closes[1].t \notin {"int", "float"} THEN caught  \* round: TypeError
      ELSE [rows |-> << [date   |-> ds,
                         symbol |-> Replace(symbol, DotCA, <<>>),
                         price  |-> PyRound2(closes[1])] >>,
            logged |-> 0, escapes |-> "none"]

ExtractSymbol(r) ==
  /\ r \in Runs
  /\ task[r]["extract_data"] = "running"
  /\ ex[r].idx <= Len(Universe)
  /\ \E resp \in Responses :
       LET out == TryFetch(Universe[ex[r].idx], resp, r)
       IN  IF out.escapes = "none"
           THEN /\ ex' = [ex EXCEPT ![r] =
                            [idx      |-> @.idx + 1,
                             all_data |-> @.all_data \o out.rows,
                             seen     |-> Append(@.seen, resp),
                             logged   |-> @.logged + out.logged]]
                /\ UNCHANGED <<task, tries, xcom, error>>
           ELSE /\ ex' = [ex EXCEPT ![r] = ExInit]
                /\ TaskFails(r, "extract_data", out.escapes)
  /\ UNCHANGED <<fs, hpc, hive>>

CsvLine(row) == row.date \o <<",">> \o row.symbol \o <<",">> \o PyStr(row.price)

CsvLines(all_data) == [i \in 1..Len(all_data) |-> CsvLine(all_data[i])]

\* ExtractFinish with the emptiness check after the file is written
ExtractFinishWriteFirst(r) ==
  /\ r \in Runs
  /\ task[r]["extract_data"] = "running"
  /\ ex[r].idx > Len(Universe)
  /\ fs' = WriteFile(fs, CsvPath(r), <<CsvHeader>> \o CsvLines(ex[r].all_data))
  /\ IF ex[r].all_data = <<>>
     THEN TaskFails(r, "extract_data", "ValueError: No data extracted")
     ELSE TaskSucceeds(r, "extract_data", CsvPath(r))
  /\ ex' = [ex EXCEPT ![r] = ExInit]
  /\ UNCHANGED <<hpc, hive>>

\* ExtractFinish without the emptiness check of lines 67-68
ExtractFinishUnchecked(r) ==
  /\ r \in Runs
  /\ task[r]["extract_data"] = "running"
  /\ ex[r].idx > Len(Universe)
  /\ fs' = WriteFile(fs, CsvPath(r), <<CsvHeader>> \o CsvLines(ex[r].all_data))
  /\ TaskSucceeds(r, "extract_data", CsvPath(r))
  /\ ex' = [ex EXCEPT ![r] = ExInit]
  /\ UNCHANGED <<hpc, hive>>

\* lines 67-78: the emptiness check, then the file, then the return
ExtractFinish(r) ==
  /\ r \in Runs
  /\ task[r]["extract_data"] = "running"
  /\ ex[r].idx > Len(Universe)
  /\ IF ex[r].all_data = <<>>
     THEN /\ TaskFails(r, "extract_data", "ValueError: No data extracted")
          /\ UNCHANGED fs
     ELSE /\ fs' = WriteFile(fs, CsvPath(r), <<CsvHeader>> \o CsvLines(ex[r].all_data))
          /\ TaskSucceeds(r, "extract_data", CsvPath(r))
  /\ ex' = [ex EXCEPT ![r] = ExInit]
  /\ UNCHANGED <<hpc, hive>>

-----------------------------------------------------------------------------------------------------------------------------------------------------
(* validate_and_prepare: lines 80-160                                      *)

\* ParseRows with `break` where line 99 has `continue`
RECURSIVE ParseRowsBreak(_)
ParseRowsBreak(lines) ==
  IF lines = <<>> THEN <<>>
  ELSE LET parts == Split(Strip(Head(lines)), ",")
           rest  == ParseRowsBreak(Tail(lines))
       IN  IF Len(parts) = 3
           THEN LET price == PyFloat(parts[3])
                IN  IF price = ValueError THEN <<>>
                    ELSE <<[symbol |-> parts[2], price |-> price]>> \o rest
           ELSE rest

\* lines 90-99: the rows of the lines after the header
RECURSIVE ParseRows(_)
ParseRows(lines) ==
  IF lines = <<>> THEN <<>>
  ELSE LET parts == Split(Strip(Head(lines)), ",")
           rest  == ParseRows(Tail(lines))
       IN  IF Len(parts) = 3
           THEN LET price == PyFloat(parts[3])
                IN  IF price = ValueError THEN rest
                    ELSE <<[symbol |-> parts[2], price |-> price]>> \o rest
           ELSE rest

\* Dedup keeping the last row of a symbol instead of the first
RECURSIVE DedupLast(_, _)
DedupLast(data, seen) ==
  IF data = <<>> THEN <<>>
  ELSE IF \E i \in 2..Len(data) : data[i].symbol = Head(data).symbol
       THEN DedupLast(Tail(data), seen)
       ELSE <<Head(data)>> \o DedupLast(Tail(data), seen)

\* lines 101-107: the rows whose symbol was not seen before, in order
RECURSIVE Dedup(_, _)
Dedup(data, seen) ==
  IF data = <<>> THEN <<>>
  ELSE IF Head(data).symbol \notin seen
       THEN <<Head(data)>> \o Dedup(Tail(data), seen \cup {Head(data).symbol})
       ELSE Dedup(Tail(data), seen)

\* f.readline() consumes the header; the rest is iterated
UniqueData(content) ==
  Dedup(ParseRows(IF content = <<>> THEN <<>> ELSE Tail(content)), {})

HiveDataLine(row) == row.symbol \o <<",">> \o PyStr(row.price)

HiveDataLines(unique_data) ==
  [i \in 1..Len(unique_data) |-> HiveDataLine(unique_data[i])]

\* HqlScript with steps 5 and 6 exchanged: the partition is dropped after
\* the insert
HqlScriptDropLast(hive_data, ds) ==
  << [op |-> "CREATE TABLE IF NOT EXISTS", table |-> StagingTable, arg |-> <<>>],
     [op |-> "CREATE TABLE IF NOT EXISTS", table |-> StocksTable, arg |-> <<>>],
     [op |-> "TRUNCATE TABLE", table |-> StagingTable, arg |-> <<>>],
     [op |-> "LOAD DATA LOCAL INPATH", table |-> StagingTable, arg |-> hive_data],
     [op |-> "INSERT INTO PARTITION", table |-> StocksTable, arg |-> ds],
     [op |-> "DROP IF EXISTS PARTITION", table |-> StocksTable, arg |-> ds],
     [op |-> "SELECT COUNT", table |-> StocksTable, arg |-> ds] >>

\* HqlScript without step 5: the partition is never dropped
HqlScriptNoDrop(hive_data, ds) ==
  << [op |-> "CREATE TABLE IF NOT EXISTS", table |-> StagingTable, arg |-> <<>>],
     [op |-> "CREATE TABLE IF NOT EXISTS", table |-> StocksTable, arg |-> <<>>],
     [op |-> "TRUNCATE TABLE", table |-> StagingTable, arg |-> <<>>],
     [op |-> "LOAD DATA LOCAL INPATH", table |-> StagingTable, arg |-> hive_data],
     [op |-> "INSERT INTO PARTITION", table |-> StocksTable, arg |-> ds],
     [op |-> "SELECT COUNT", table |-> StocksTable, arg |-> ds] >>

\* lines 120-157: the statements of the script, in the order written
HqlScript(hive_data, ds) ==
  << [op |-> "CREATE TABLE IF NOT EXISTS", table |-> StagingTable, arg |-> <<>>],
     [op |-> "CREATE TABLE IF NOT EXISTS", table |-> StocksTable, arg |-> <<>>],
     [op |-> "TRUNCATE TABLE", table |-> StagingTable, arg |-> <<>>],
     [op |-> "LOAD DATA LOCAL INPATH", table |-> StagingTable, arg |-> hive_data],
     [op |-> "DROP IF EXISTS PARTITION", table |-> StocksTable, arg |-> ds],
     [op |-> "INSERT INTO PARTITION", table |-> StocksTable, arg |-> ds],
     [op |-> "SELECT COUNT", table |-> StocksTable, arg |-> ds] >>

Validate(r) ==
  /\ r \in Runs
  /\ task[r]["validate_and_prepare"] = "running"
  /\ LET csv_path == xcom[r]["extract_data"]
     IN  IF csv_path \notin DOMAIN fs
         THEN /\ TaskFails(r, "validate_and_prepare", "FileNotFoundError")
              /\ UNCHANGED fs
         ELSE LET unique_data == UniqueData(fs[csv_path])
                  hive_data   == HiveDataPath(r)
                  hql_script  == HqlPath(r)
              IN  /\ fs' = WriteFile(
                             WriteFile(fs, hive_data, HiveDataLines(unique_data)),
                             hql_script, HqlScript(hive_data, r))
                  /\ TaskSucceeds(r, "validate_and_prepare", hql_script)
  /\ UNCHANGED <<ex, hpc, hive>>

-----------------------------------------------------------------------------
(* hive -f <script>: lines 120-157 and 175-179                             *)

Null == [t |-> "NULL"]

\* a text field read as DECIMAL(10,2): rounded half up to two places, NULL
\* when it is no number
HiveDecimal(s) ==
  LET v == PyFloat(s)
  IN  IF v.t # "float" THEN Null
      ELSE [t |-> "decimal",
            h |-> IF v.m >= 0 THEN (v.m + 5) \div 10 ELSE -((5 - v.m) \div 10)]

\* a line of a TEXTFILE table with FIELDS TERMINATED BY ',' and the columns
\* (stock_symbol STRING, price DECIMAL(10,2))
HiveRow(line) ==
  LET f == Split(line, ",")
  IN  [stock_symbol |-> f[1],
       price |-> IF Len(f) >= 2 THEN HiveDecimal(f[2]) ELSE Null]

RECURSIVE RowsBag(_)
RowsBag(lines) ==
  IF lines = <<>> THEN EmptyBag
  ELSE SetToBag({HiveRow(Head(lines))}) (+) RowsBag(Tail(lines))

\* what `hive -f` does with a path that names no file: it fails
NoSuchScript == <<[op |-> "FILE NOT FOUND", table |-> "", arg |-> <<>>]>>

\* the script `hive -f` was given: the rendered bash_command of line 177
ScriptOf(r) ==
  IF xcom[r]["validate_and_prepare"] \in DOMAIN fs
  THEN fs[xcom[r]["validate_and_prepare"]]
  ELSE NoSuchScript

\* whether the statement can run in the current state
StatementOk(s) ==
  CASE s.op = "CREATE TABLE IF NOT EXISTS" -> TRUE
    [] s.op = "LOAD DATA LOCAL INPATH"     -> s.table \in tables /\ s.arg \in DOMAIN fs
    [] OTHER                               -> s.table \in tables

\* one statement of the script
HiveStep(r) ==
  /\ r \in Runs
  /\ task[r]["load_to_hive"] = "running"
  /\ hpc[r] <= Len(ScriptOf(r))
  /\ LET s == ScriptOf(r)[hpc[r]]
     IN  IF ~StatementOk(s)
         THEN /\ TaskFails(r, "load_to_hive", "hive: non-zero exit")
              /\ UNCHANGED <<hpc, hive>>
         ELSE /\ hpc' = [hpc EXCEPT ![r] = @ + 1]
              /\ tables' = IF s.op = "CREATE TABLE IF NOT EXISTS"
                           THEN tables \cup {s.table} ELSE tables
              /\ staging' =
                   CASE s.op = "TRUNCATE TABLE"         -> EmptyBag
                     [] s.op = "LOAD DATA LOCAL INPATH" -> staging (+) RowsBag(fs[s.arg])
                     [] OTHER                           -> staging
              /\ stocks' =
                   CASE s.op = "DROP IF EXISTS PARTITION" ->
                          [stocks EXCEPT ![s.arg] = EmptyBag]
                     [] s.op = "INSERT INTO PARTITION" ->
                          [stocks EXCEPT ![s.arg] = @ (+) staging]
                     [] OTHER -> stocks
              /\ counted' = IF s.op = "SELECT COUNT"
                            THEN [counted EXCEPT ![r] = BagCardinality(stocks[s.arg])]
                            ELSE counted
              /\ UNCHANGED <<task, tries, xcom, error>>
  /\ UNCHANGED <<fs, ex>>

\* the script ran to its end: exit status 0
HiveExit(r) ==
  /\ r \in Runs
  /\ task[r]["load_to_hive"] = "running"
  /\ hpc[r] > Len(ScriptOf(r))
  /\ TaskSucceeds(r, "load_to_hive", NoXCom)
  /\ UNCHANGED <<fs, ex, hpc, hive>>

\* the warehouse engine fails for a reason of its own, at any statement
HiveCrash(r) ==
  /\ r \in Runs
  /\ task[r]["load_to_hive"] = "running"
  /\ hpc[r] <= Len(ScriptOf(r))
  /\ TaskFails(r, "load_to_hive", "hive: non-zero exit")
  /\ UNCHANGED <<fs, ex, hpc, hive>>

\* the same script is executed once more after a successful execution
RunAgain(r) ==
  /\ r \in Runs
  /\ task[r]["load_to_hive"] = "success"
  /\ tries[r]["load_to_hive"] < MaxExecutions
  /\ task' = [task EXCEPT ![r]["load_to_hive"] = "running"]
  /\ tries' = [tries EXCEPT ![r]["load_to_hive"] = @ + 1]
  /\ hpc' = [hpc EXCEPT ![r] = 1]
  /\ UNCHANGED <<fs, xcom, error, ex, hive>>

-----------------------------------------------------------------------------
(* Initial states                                                          *)

NoTask == [t \in Tasks |-> "none"]

RunInit(runs) ==
  /\ tries = [r \in runs |-> [t \in Tasks |->
                IF task[r][t] = "success" THEN 1 ELSE 0]]
  /\ error = [r \in runs |-> [t \in Tasks |-> "none"]]
  /\ ex = [r \in runs |-> ExInit]
  /\ hpc = [r \in runs |-> 1]
  /\ counted = [r \in runs |-> -1]

HiveEmpty ==
  /\ tables = {}
  /\ staging = EmptyBag
  /\ stocks = [d \in Dates |-> EmptyBag]

\* the extraction task of one run, scheduled for the first time
InitExtract ==
  /\ \E d \in Dates : task = [r \in {d} |-> NoTask]
  /\ xcom = [r \in DOMAIN task |-> [t \in Tasks |-> NoXCom]]
  /\ RunInit(DOMAIN task)
  /\ fs = <<>>
  /\ HiveEmpty

NextExtract ==
  \/ \E r \in Dates : StartTask(r, "extract_data")
  \/ \E r \in Dates : ExtractSymbol(r)
  \/ \E r \in Dates : ExtractFinish(r)

SpecExtract == InitExtract /\ [][NextExtract]_vars

\* raw lines a validation run may find after the header
SampleLines ==
  { <<"d",",","X",",","1","0",".","0","0">>,
    <<"d",",","X",",","2","0",".","0","0">>,
    <<"d",",","Y",",","1","0",".","0">>,
    <<"d",",","Y",",","1","5">>,
    <<"X",",","1","0",".","0","0">>,
    <<"d",",","X",",","a","b","c">>,
    <<"d",",","Y",",">>,
    <<>>,
    <<"d",",","X",",","1",",","5">>,
    <<" ","d",",","Z",",","3","0",".","5"," ">> }

SeqsUpTo(S, n) == UNION {[1..k -> S] : k \in 0..n}

\* a validation run that finds an extraction artifact with any sample lines
InitValidate ==
  /\ \E d \in Dates :
       /\ task = [r \in {d} |-> [NoTask EXCEPT !["extract_data"] = "success"]]
       /\ xcom = [r \in {d} |-> [t \in Tasks |->
                    IF t = "extract_data" THEN CsvPath(d) ELSE NoXCom]]
       /\ \E rows \in SeqsUpTo(SampleLines, MaxRows) :
            fs = WriteFile(<<>>, CsvPath(d), <<CsvHeader>> \o rows)
  /\ RunInit(DOMAIN task)
  /\ HiveEmpty

NextValidate ==
  \/ \E r \in Dates : StartTask(r, "validate_and_prepare")
  \/ \E r \in Dates : Validate(r)

SpecValidate == InitValidate /\ [][NextValidate]_vars
\* well-formed lines for the runs that start at the load
LoadSample ==
  { <<"d",",","X",",","1","0",".","0","0">>,
    <<"d",",","X",",","2","0",".","0","0">>,
    <<"d",",","Y",",","1","5">> }

RowX == [stock_symbol |-> <<"X">>, price |-> [t |-> "decimal", h |-> 1000]]
RowW == [stock_symbol |-> <<"W">>, price |-> [t |-> "decimal", h |-> 725]]

\* contents a table or a partition may have before a run
InitBags ==
  { EmptyBag, SetToBag({RowW}), SetToBag({RowX}) (+) SetToBag({RowX}),
    SetToBag({RowX, RowW}) }

\* the files of run d once extraction and validation are done, for the
\* extraction artifact `content`
FilesAfterValidate(files, d, content) ==
  WriteFile(
    WriteFile(WriteFile(files, CsvPath(d), content),
              HiveDataPath(d), HiveDataLines(UniqueData(content))),
    HqlPath(d), HqlScript(HiveDataPath(d), d))

\* any state of the two tables
HiveAny ==
  /\ tables \in {{}, {StagingTable, StocksTable}}
  /\ staging \in (IF tables = {} THEN {EmptyBag} ELSE InitBags)
  /\ stocks \in (IF tables = {} THEN {[d \in Dates |-> EmptyBag]}
                 ELSE [Dates -> InitBags])

\* a run whose load script is about to be executed, the tables in any state
InitRerun ==
  /\ \E d \in Dates :
       /\ task = [r \in {d} |-> [t \in Tasks |->
                    IF t = "load_to_hive" THEN "none" ELSE "success"]]
       /\ xcom = [r \in {d} |-> [t \in Tasks |->
                    CASE t = "extract_data" -> CsvPath(d)
                      [] t = "validate_and_prepare" -> HqlPath(d)
                      [] OTHER -> NoXCom]]
       /\ \E rows \in SeqsUpTo(LoadSample, MaxLoadRows) :
            fs = FilesAfterValidate(<<>>, d, <<CsvHeader>> \o rows)
  /\ RunInit(DOMAIN task)
  /\ HiveAny

NextRerun ==
  \/ \E r \in Dates : StartTask(r, "load_to_hive")
  \/ \E r \in Dates : HiveStep(r)
  \/ \E r \in Dates : HiveExit(r)
  \/ \E r \in Dates : RunAgain(r)

SpecRerun == InitRerun /\ [][NextRerun]_vars

\* the runs of both dates at once, each with its extraction artifact written
InitConcurrent ==
  /\ task = [r \in Dates |-> [NoTask EXCEPT !["extract_data"] = "success"]]
  /\ xcom = [r \in Dates |-> [t \in Tasks |->
               IF t = "extract_data" THEN CsvPath(r) ELSE NoXCom]]
  /\ \E rows1, rows2 \in SeqsUpTo(LoadSample, MaxLoadRows) :
       fs = WriteFile(WriteFile(<<>>, CsvPath(Date1), <<CsvHeader>> \o rows1),
                      CsvPath(Date2), <<CsvHeader>> \o rows2)
  /\ RunInit(DOMAIN task)
  /\ HiveEmpty

NextConcurrent ==
  \/ \E r \in Dates : StartTask(r, "validate_and_prepare")
  \/ \E r \in Dates : Validate(r)
  \/ \E r \in Dates : StartTask(r, "load_to_hive")
  \/ \E r \in Dates : HiveStep(r)
  \/ \E r \in Dates : HiveExit(r)

SpecConcurrent == InitConcurrent /\ [][NextConcurrent]_vars

\* one scheduled run, from its first task on
InitPipeline ==
  /\ \E d \in Dates : task = [r \in {d} |-> NoTask]
  /\ xcom = [r \in DOMAIN task |-> [t \in Tasks |-> NoXCom]]
  /\ RunInit(DOMAIN task)
  /\ fs = <<>>
  /\ \/ HiveEmpty
     \/ /\ tables = {StagingTable, StocksTable}
        /\ staging = SetToBag({RowW})
        /\ stocks = [d \in Dates |-> SetToBag({RowX, RowW})]

NextPipeline ==
  \/ \E r \in Dates, t \in Tasks : StartTask(r, t)
  \/ \E r \in Dates, t \in Tasks : MarkUpstreamFailed(r, t)
  \/ \E r \in Dates : ExtractSymbol(r)
  \/ \E r \in Dates : ExtractFinish(r)
  \/ \E r \in Dates : Validate(r)
  \/ \E r \in Dates : HiveStep(r)
  \/ \E r \in Dates : HiveExit(r)
  \/ \E r \in Dates : HiveCrash(r)

SpecPipeline == InitPipeline /\ [][NextPipeline]_vars

-----------------------------------------------------------------------------
(* Properties of the extraction stage                                      *)

\* the request succeeded and the first close of the answer is a number
YieldsRecord(resp) ==
  /\ resp.raises = "none"
  /\ resp.data.result # <<>>
  /\ resp.data.result[1].has_quote
  /\ resp.data.result[1].quote # <<>>
  /\ resp.data.result[1].quote[1].has_close
  /\ resp.data.result[1].quote[1].close # <<>>
  /\ resp.data.result[1].quote[1].close[1].t \in {"int", "float"}

\* the extraction task of run r ends in this step
ExtractEnds(r) ==
  /\ r \in Runs
  /\ task[r]["extract_data"] = "running"
  /\ task'[r]["extract_data"] # "running"

NoneYields(r) == \A i \in 1..Len(ex[r].seen) : ~YieldsRecord(ex[r].seen[i])

\* C3: when the extraction stage ends and no symbol yielded a record, it ends
\* with the error "No data extracted", writes no file and returns no
\* location; when some symbol yielded a record it ends in success, without
\* that error.
C3_EmptyBatchIsFatal ==
  [][\A r \in Dates : ExtractEnds(r) =>
        IF NoneYields(r)
        THEN /\ task'[r]["extract_data"] \in {"up_for_retry", "failed"}
             /\ error'[r]["extract_data"] = "ValueError: No data extracted"
             /\ fs' = fs
             /\ CsvPath(r) \notin DOMAIN fs'
             /\ xcom'[r]["extract_data"] = NoXCom
        ELSE /\ task'[r]["extract_data"] = "success"
             /\ error'[r]["extract_data"] = error[r]["extract_data"]
             /\ xcom'[r]["extract_data"] = CsvPath(r)
             /\ CsvPath(r) \in DOMAIN fs']_vars

\* an attempt failed with the empty-batch error after every symbol was
\* queried, and left no artifact
C3_Witness ==
  \E r \in Runs :
    /\ error[r]["extract_data"] = "ValueError: No data extracted"
    /\ task[r]["extract_data"] = "failed"
    /\ tries[r]["extract_data"] = Retries + 1
    /\ CsvPath(r) \notin DOMAIN fs

\* the symbol without its exchange suffix
WithoutSuffix(symbol) == SubSeq(symbol, 1, Len(symbol) - Len(DotCA))

RECURSIVE ExpectedSymbols(_, _)
ExpectedSymbols(seen, i) ==
  IF i > Len(seen) THEN <<>>
  ELSE (IF YieldsRecord(seen[i]) THEN <<WithoutSuffix(Universe[i])>> ELSE <<>>)
         \o ExpectedSymbols(seen, i + 1)

\* C4: the extraction stage ends only after every configured symbol was
\* queried, whatever failed on the way, and never with a per-symbol error;
\* the file it writes holds, after the header, one line per symbol that
\* yielded a record, in configured order, with the run date and the symbol
\* without its suffix, and nothing for the others.
C4_PartialFailureTolerated ==
  [][\A r \in Dates : ExtractEnds(r) =>
        /\ Len(ex[r].seen) = Len(Universe)
        /\ error'[r]["extract_data"] \in {"none", "ValueError: No data extracted"}
        /\ task'[r]["extract_data"] = "success" =>
             LET lines == Tail(fs'[CsvPath(r)])
                 want  == ExpectedSymbols(ex[r].seen, 1)
             IN  /\ Head(fs'[CsvPath(r)]) = CsvHeader
                 /\ Len(lines) = Len(want)
                 /\ \A k \in 1..Len(lines) :
                      /\ Len(Split(lines[k], ",")) = 3
                      /\ Split(lines[k], ",")[1] = r
                      /\ Split(lines[k], ",")[2] = want[k]]_vars

\* a batch was persisted that holds the last configured symbol only: the
\* symbols before it failed and the loop went on
C4_Witness ==
  \E r \in Runs :
    /\ CsvPath(r) \in DOMAIN fs
    /\ Len(fs[CsvPath(r)]) = 2
    /\ Len(Universe) > 1
    /\ Split(fs[CsvPath(r)][2], ",")[2] = WithoutSuffix(Universe[Len(Universe)])

-----------------------------------------------------------------------------
(* Properties of the validation stage                                      *)

Validated(r) == r \in Runs /\ task[r]["validate_and_prepare"] = "success"

\* the lines of the extraction artifact after its header
RawRows(r) == Tail(fs[CsvPath(r)])

Fields(line) == Split(Strip(line), ",")

WellFormed(line) == Len(Fields(line)) = 3 /\ PyFloat(Fields(line)[3]) # ValueError

\* the positions of the well-formed rows that are the first of their symbol
FirstSeen(raw) ==
  { i \in 1..Len(raw) :
      /\ WellFormed(raw[i])
      /\ \A j \in 1..(i - 1) :
           WellFormed(raw[j]) => Fields(raw[j])[2] # Fields(raw[i])[2] }

\* the k-th of them in file order
KthFirst(raw, k) ==
  CHOOSE i \in FirstSeen(raw) : Cardinality({j \in FirstSeen(raw) : j < i}) = k - 1

CleanRows(r) == fs[HiveDataPath(r)]

\* C5: the clean dataset has pairwise distinct symbols, one line per symbol
\* that has a well-formed row, with the price of the first well-formed row
\* of that symbol, in the order in which the symbols first occur in
\* well-formed rows.
C5_FirstSeenWins ==
  \A r \in Dates : Validated(r) =>
    LET raw   == RawRows(r)
        clean == CleanRows(r)
    IN  /\ Len(clean) = Cardinality(FirstSeen(raw))
        /\ \A k \in 1..Len(clean) :
             /\ Len(Split(clean[k], ",")) = 2
             /\ Split(clean[k], ",")[1] = Fields(raw[KthFirst(raw, k)])[2]
             /\ PyFloat(Split(clean[k], ",")[2])
                  = PyFloat(Fields(raw[KthFirst(raw, k)])[3])
        /\ \A k, l \in 1..Len(clean) :
             k # l => Split(clean[k], ",")[1] # Split(clean[l], ",")[1]

\* rows (X, 10.00) then (X, 20.00) gave the one line X,10.0
C5_Witness ==
  \E r \in Runs :
    /\ Validated(r)
    /\ RawRows(r) = << <<"d",",","X",",","1","0",".","0","0">>,
                       <<"d",",","X",",","2","0",".","0","0">> >>
    /\ CleanRows(r) = << <<"X",",","1","0",".","0">> >>

RECURSIVE OnlyWellFormed(_)
OnlyWellFormed(raw) ==
  IF raw = <<>> THEN <<>>
  ELSE (IF WellFormed(Head(raw)) THEN <<Head(raw)>> ELSE <<>>)
         \o OnlyWellFormed(Tail(raw))

\* C6: the validation stage never fails on a malformed row, and the clean
\* dataset it writes is the one it would write for the same input without
\* the malformed rows.
C6_MalformedRowsDropped ==
  \A r \in Dates : r \in Runs =>
    /\ task[r]["validate_and_prepare"] \in {"none", "running", "success"}
    /\ error[r]["validate_and_prepare"] = "none"
    /\ Validated(r) =>
         CleanRows(r)
           = HiveDataLines(UniqueData(<<CsvHeader>> \o OnlyWellFormed(RawRows(r))))

\* a non-numeric row for X, then a two-field row, between well-formed rows:
\* neither is in the result and the later X row is
C6_Witness ==
  \E r \in Runs :
    /\ Validated(r)
    /\ RawRows(r) = << <<"d",",","X",",","a","b","c">>,
                       <<"X",",","1","0",".","0","0">>,
                       <<"d",",","X",",","2","0",".","0","0">> >>
    /\ CleanRows(r) = << <<"X",",","2","0",".","0">> >>

\* C7: the load script of a run is the seven steps in the order create
\* staging, create target, clear staging, load the run's clean dataset file,
\* drop the run's partition, insert into the run's partition, count the
\* run's partition; so the clear precedes the load, and the load and the
\* drop precede the insert.
C7_ScriptOrder ==
  \A r \in Dates : Validated(r) =>
    LET script == fs[HqlPath(r)]
        at(o)  == {i \in 1..Len(script) : script[i].op = o}
    IN  /\ xcom[r]["validate_and_prepare"] = HqlPath(r)
        /\ [i \in 1..Len(script) |-> script[i].op]
             = << "CREATE TABLE IF NOT EXISTS", "CREATE TABLE IF NOT EXISTS",
                  "TRUNCATE TABLE", "LOAD DATA LOCAL INPATH",
                  "DROP IF EXISTS PARTITION", "INSERT INTO PARTITION",
                  "SELECT COUNT" >>
        /\ [i \in 1..Len(script) |-> script[i].table]
             = << StagingTable, StocksTable, StagingTable, StagingTable,
                  StocksTable, StocksTable, StocksTable >>
        /\ \A i \in at("TRUNCATE TABLE"), j \in at("LOAD DATA LOCAL INPATH") : i < j
        /\ \A i \in at("LOAD DATA LOCAL INPATH"), j \in at("INSERT INTO PARTITION") : i < j
        /\ \A i \in at("DROP IF EXISTS PARTITION"), j \in at("INSERT INTO PARTITION") : i < j
        /\ script[4].arg = HiveDataPath(r)
        /\ HiveDataPath(r) \in DOMAIN fs
        /\ script[5].arg = r /\ script[6].arg = r /\ script[7].arg = r

\* a script was generated for the second run date
C7_Witness ==
  /\ Validated(Date2)
  /\ HqlPath(Date2) \in DOMAIN fs
  /\ Len(fs[HqlPath(Date2)]) = 7

-----------------------------------------------------------------------------
(* Properties of the load                                                  *)

Loaded(r) == r \in Runs /\ task[r]["load_to_hive"] = "success"

\* the partition of run r holds each line of r's clean dataset once, and
\* nothing else
HoldsOwnDataset(r) ==
  LET clean == CleanRows(r)
  IN  /\ BagToSet(stocks[r]) = {HiveRow(clean[k]) : k \in 1..Len(clean)}
      /\ \A row \in BagToSet(stocks[r]) : CopiesIn(row, stocks[r]) = 1
      /\ BagCardinality(stocks[r]) = Len(clean)

\* C1: whatever the two tables held before, after the first execution of a
\* run's load script and again after the second, the run's partition holds
\* exactly one copy of the clean dataset, and the verification query counts
\* that many rows.
C1_LoadIdempotent ==
  \A r \in Dates : Loaded(r) =>
    /\ HoldsOwnDataset(r)
    /\ counted[r] = Len(CleanRows(r))

\* the script has run twice on a dataset of two rows, in a target table
\* whose other partition still holds what it held before
C1_Witness ==
  \E r \in Runs :
    /\ Loaded(r)
    /\ tries[r]["load_to_hive"] = 2
    /\ Len(CleanRows(r)) = 2
    /\ counted[r] = 2
    /\ \E d \in Dates \ {r} : stocks[d] = SetToBag({RowX}) (+) SetToBag({RowX})

\* C2: when the runs of two dates execute at once, each run's partition
\* holds exactly that run's clean dataset once the run's load has finished.
C2_RunsIsolated ==
  \A r \in Dates : Loaded(r) => HoldsOwnDataset(r)

-----------------------------------------------------------------------------
(* Properties of the whole run                                             *)

\* C8: a file that exists keeps its content in every step, through the
\* retries of the extraction and of the load.
C8_ArtifactsImmutable ==
  [][\A p \in DOMAIN fs : p \in DOMAIN fs' /\ fs'[p] = fs[p]]_vars

\* the extraction and the load each took three attempts, and the three
\* artifacts of the run exist
C8_Witness ==
  \E r \in Runs :
    /\ tries[r]["extract_data"] = Retries + 1
    /\ tries[r]["load_to_hive"] = Retries + 1
    /\ Loaded(r)
    /\ {CsvPath(r), HiveDataPath(r), HqlPath(r)} \subseteq DOMAIN fs

Started(r, t) == task[r][t] \notin {"none", "upstream_failed"}

\* C9: a task has started only if the task before it succeeded and handed
\* over the location of its artifact; while the extraction has not succeeded
\* nothing downstream has been attempted and no step changes the tables; the
\* validation never fails, the extraction fails with the empty-batch error
\* only, and a failed task is the extraction with that error or the load
\* with the engine's exit status.
C9_StagesOrdered ==
  /\ [](\A r \in Dates : r \in Runs =>
          /\ Started(r, "validate_and_prepare") =>
               /\ task[r]["extract_data"] = "success"
               /\ xcom[r]["extract_data"] = CsvPath(r)
               /\ CsvPath(r) \in DOMAIN fs
          /\ Started(r, "load_to_hive") =>
               /\ task[r]["validate_and_prepare"] = "success"
               /\ xcom[r]["validate_and_prepare"] = HqlPath(r)
               /\ HqlPath(r) \in DOMAIN fs
          /\ task[r]["extract_data"] # "success" =>
               /\ tries[r]["validate_and_prepare"] = 0
               /\ tries[r]["load_to_hive"] = 0
          /\ error[r]["extract_data"] \in {"none", "ValueError: No data extracted"}
          /\ error[r]["validate_and_prepare"] = "none"
          /\ error[r]["load_to_hive"] \in {"none", "hive: non-zero exit"}
          /\ task[r]["validate_and_prepare"] \notin {"up_for_retry", "failed"}
          /\ task[r]["extract_data"] \in {"up_for_retry", "failed"} =>
               error[r]["extract_data"] = "ValueError: No data extracted")
  /\ [][\A r \in Dates : (r \in Runs /\ task[r]["extract_data"] # "success") =>
          /\ hive' = hive
          /\ task'[r]["validate_and_prepare"] \in {"none", "upstream_failed"}
          /\ task'[r]["load_to_hive"] \in {"none", "upstream_failed"}]_vars

\* the extraction failed for good with the empty-batch error and neither
\* later task ran
C9_Witness ==
  \E r \in Runs :
    /\ task[r]["extract_data"] = "failed"
    /\ error[r]["extract_data"] = "ValueError: No data extracted"
    /\ task[r]["validate_and_prepare"] = "upstream_failed"
    /\ task[r]["load_to_hive"] = "upstream_failed"
    /\ tries[r]["validate_and_prepare"] = 0
    /\ tries[r]["load_to_hive"] = 0

\* the configured symbols without their suffix are pairwise distinct
SymbolsDistinct ==
  \A i \in 1..Len(egx_symbols) : \A j \in (i + 1)..Len(egx_symbols) :
    WithoutSuffix(egx_symbols[i]) # WithoutSuffix(egx_symbols[j])

\* C10: once the validation of a run has succeeded, the clean dataset is not
\* empty and has, line for line, the symbol and the price of the lines the
\* extractor wrote: each of those has three fields and a price float()
\* accepts, and no two have the same symbol.
C10_NoRowDropped ==
  \A r \in Dates : Validated(r) =>
    LET raw   == RawRows(r)
        clean == CleanRows(r)
        rawf  == [k \in 1..Len(raw) |-> Split(raw[k], ",")]
        clnf  == [k \in 1..Len(clean) |-> Split(clean[k], ",")]
    IN  /\ SymbolsDistinct
        /\ Len(clean) > 0
        /\ Len(clean) = Len(raw)
        /\ \A k \in 1..Len(raw) :
             /\ Len(rawf[k]) = 3
             /\ PyFloat(rawf[k][3]) # ValueError
             /\ Len(clnf[k]) = 2
             /\ clnf[k][1] = rawf[k][2]
             /\ PyFloat(clnf[k][2]) = PyFloat(rawf[k][3])
        /\ \A k, l \in 1..Len(raw) : k # l => rawf[k][2] # rawf[l][2]

\* a run in which every symbol yielded a record was validated and loaded
C10_Witness ==
  \E r \in Runs :
    /\ Loaded(r)
    /\ Len(RawRows(r)) = Len(Universe)
    /\ Len(CleanRows(r)) = Len(Universe)
    /\ \E k \in 1..Len(RawRows(r)) :
         Split(RawRows(r)[k], ",")[3] = <<"1","5","0","0">>
    /\ \E k \in 1..Len(RawRows(r)) :
         Split(RawRows(r)[k], ",")[3] = <<"1","2","3",".","4","6">>
=============================================================================
